---- MODULE Spec2Model ----
(***************************************************************************)
(* Black_Scholes.py: the Black-Scholes pricer, the payoff calculator and   *)
(* the plotting script.                                                    *)
(*                                                                         *)
(* Numbers.  A finite real is a fixed-point integer: the real x is the     *)
(* integer x * Scale.  A floating-point value that can be non-finite (d1,  *)
(* d2, a price) is a record [k, v]: k = "fin" with v the fixed-point       *)
(* value, k = "inf" with v the sign, k = "nan", and k = "exc" for an       *)
(* arithmetic operation that raised instead of returning.  NumPy scalar    *)
(* arithmetic never raises: it returns inf or nan.                         *)
(*                                                                         *)
(* Strings are sequences of one-character strings, so that                 *)
(* str.capitalize() is computed and not looked up.                         *)
(***************************************************************************)
EXTENDS Integers, Sequences, FiniteSets, TLC

VARIABLES
    S, K, T, r, sigma, option_type,   \* the script's parameters, lines 67-72
    pc,                               \* the script's position
    prices, payoffs,                  \* lines 78-83
    trace,                            \* the calls made so far, in order
    chart,                            \* the pyplot figure being built
    shown,                            \* the charts displayed by plt.show()
    error,                            \* the exception that ended the script
    call, ret                         \* one direct invocation and its outcome

vars == <<S, K, T, r, sigma, option_type, pc, prices, payoffs, trace, chart,
          shown, error, call, ret>>

(***************************************************************************)
(* Bounds of the model.                                                    *)
(***************************************************************************)
Scale == 1000       \* fixed-point resolution: 1.0 is Scale
MaxLen == 3         \* longest spot vector handed to option_payoff directly
Tol == 5            \* put-call parity tolerance, in units of 1/Scale

(***************************************************************************)
(* Python evaluates an argument or a local variable once and passes its    *)
(* value.  Local and Local2 do the same for the operators below.           *)
(***************************************************************************)
Local(v, Body(_)) == CHOOSE y \in {Body(x) : x \in {v}} : TRUE
Local2(v, w, Body(_, _)) == CHOOSE y \in {Body(a, b) : a \in {v}, b \in {w}} : TRUE

(***************************************************************************)
(* Floating-point values.                                                  *)
(***************************************************************************)
Fin(n) == [k |-> "fin", v |-> n]
PInf == [k |-> "inf", v |-> 1]
NInf == [k |-> "inf", v |-> -1]
NaN == [k |-> "nan", v |-> 0]
Exc == [k |-> "exc", v |-> 0]

Sgn(n) == IF n > 0 THEN 1 ELSE IF n < 0 THEN -1 ELSE 0
Abs(n) == IF n < 0 THEN -n ELSE n
\* rounding toward zero of x / y, y > 0
Quot(x, y) == Local(x, LAMBDA a : Sgn(a) * (Abs(a) \div y))
SignOf(a) == IF a.k = "inf" THEN a.v ELSE Sgn(a.v)
Inf(s) == IF s > 0 THEN PInf ELSE NInf

FNeg(x) ==
    Local(x, LAMBDA a :
        IF a.k = "fin" THEN Fin(-a.v)
        ELSE IF a.k = "inf" THEN Inf(-a.v)
        ELSE a)

FAdd(x, y) ==
    Local2(x, y, LAMBDA a, b :
        IF a.k = "exc" \/ b.k = "exc" THEN Exc
        ELSE IF a.k = "nan" \/ b.k = "nan" THEN NaN
        ELSE IF a.k = "inf" /\ b.k = "inf" THEN (IF a.v = b.v THEN a ELSE NaN)
        ELSE IF a.k = "inf" THEN a
        ELSE IF b.k = "inf" THEN b
        ELSE Fin(a.v + b.v))

FSub(x, y) == FAdd(x, FNeg(y))

FMul(x, y) ==
    Local2(x, y, LAMBDA a, b :
        IF a.k = "exc" \/ b.k = "exc" THEN Exc
        ELSE IF a.k = "nan" \/ b.k = "nan" THEN NaN
        ELSE IF a.k = "inf" \/ b.k = "inf"
             THEN (IF SignOf(a) * SignOf(b) = 0 THEN NaN
                   ELSE Inf(SignOf(a) * SignOf(b)))
        ELSE Fin(Quot(a.v * b.v, Scale)))

\* Python float division: a zero divisor raises ZeroDivisionError.
FDivPython(x, y) ==
    Local2(x, y, LAMBDA a, b :
        IF a.k = "exc" \/ b.k = "exc" THEN Exc
        ELSE IF a.k = "nan" \/ b.k = "nan" THEN NaN
        ELSE IF b.k = "fin" /\ b.v = 0 THEN Exc
        ELSE IF a.k = "inf" /\ b.k = "inf" THEN NaN
        ELSE IF a.k = "inf" THEN Inf(a.v * Sgn(b.v))
        ELSE IF b.k = "inf" THEN Fin(0)
        ELSE Fin(Sgn(a.v) * Sgn(b.v) * ((Abs(a.v) * Scale) \div Abs(b.v))))

\* NumPy float64 division: x / 0 is inf, -inf or nan, never an exception.
\* The divisors of the program are never negative zero.
FDiv(x, y) ==
    Local2(x, y, LAMBDA a, b :
        IF a.k = "exc" \/ b.k = "exc" THEN Exc
        ELSE IF a.k = "nan" \/ b.k = "nan" THEN NaN
        ELSE IF b.k = "fin" /\ b.v = 0
             THEN (IF SignOf(a) = 0 THEN NaN ELSE Inf(SignOf(a)))
        ELSE IF a.k = "inf" /\ b.k = "inf" THEN NaN
        ELSE IF a.k = "inf" THEN Inf(a.v * Sgn(b.v))
        ELSE IF b.k = "inf" THEN Fin(0)
        ELSE Fin(Sgn(a.v) * Sgn(b.v) * ((Abs(a.v) * Scale) \div Abs(b.v))))

(***************************************************************************)
(* The library functions the pricer calls, in fixed point.                 *)
(***************************************************************************)
\* x ** 2
Square(x) == Local(x, LAMBDA a : FMul(a, a))

ISqrt(n) == CHOOSE q \in 0..n : q * q <= n /\ (q + 1) * (q + 1) > n

\* np.sqrt
np_sqrt(x) ==
    Local(x, LAMBDA a :
        IF a.k = "fin" THEN (IF a.v < 0 THEN NaN ELSE Fin(ISqrt(a.v * Scale)))
        ELSE IF a.k = "inf" THEN (IF a.v > 0 THEN PInf ELSE NaN)
        ELSE a)

\* the next odd power of z over Scale, from z^n and z^2
NextOdd(zn, z2) == Quot(zn * z2, Scale)

\* ln x = 2 * (z + z^3/3 + z^5/5 + ...), z = (x - 1) / (x + 1)
LogSeries(x) ==
    Local(Quot((x - Scale) * Scale, x + Scale), LAMBDA z :
    Local(Quot(z * z, Scale), LAMBDA z2 :
    Local(NextOdd(z, z2), LAMBDA z3 :
    Local(NextOdd(z3, z2), LAMBDA z5 :
    Local(NextOdd(z5, z2), LAMBDA z7 :
        2 * (z + Quot(z3, 3) + Quot(z5, 5) + Quot(z7, 7)
               + Quot(NextOdd(z7, z2), 9)))))))

\* np.log
np_log(x) ==
    Local(x, LAMBDA a :
        IF a.k = "fin"
        THEN (IF a.v < 0 THEN NaN ELSE IF a.v = 0 THEN NInf ELSE Fin(LogSeries(a.v)))
        ELSE IF a.k = "inf" THEN (IF a.v > 0 THEN PInf ELSE NaN)
        ELSE a)

\* e^x = 1 + x + x^2/2 + ... for the small exponents -r*T of the model
ExpSeries(x) ==
    Local(Quot(x * x, Scale), LAMBDA x2 :
    Local(Quot(x2 * x, Scale), LAMBDA x3 :
    Local(Quot(x3 * x, Scale), LAMBDA x4 :
        Scale + x + Quot(x2, 2) + Quot(x3, 6) + Quot(x4, 24)
              + Quot(Quot(x4 * x, Scale), 120))))

\* np.exp
np_exp(x) ==
    Local(x, LAMBDA a :
        IF a.k = "fin" THEN Fin(ExpSeries(a.v))
        ELSE IF a.k = "inf" THEN (IF a.v > 0 THEN PInf ELSE Fin(0))
        ELSE a)

\* The standard normal CDF at 0.0, 0.5, ..., 4.0, in units of 1/100000.
PhiTable == <<50000, 69146, 84134, 93319, 97725, 99379, 99865, 99977, 99997>>

\* Linear interpolation in PhiTable, for 0 <= x < 4.0
PhiInterp(x) ==
    LET half == Scale \div 2
        j == x \div half
        frac == x - j * half
        lo == PhiTable[j + 1]
        hi == PhiTable[j + 2]
    IN  ((lo * half + (hi - lo) * frac) * 2) \div 100000

\* scipy.stats.norm.cdf; cdf(-x) is 1 - cdf(x) to the resolution of the model
norm_cdf(x) ==
    Local(x, LAMBDA a :
        IF a.k = "fin"
        THEN (IF a.v >= 8 * (Scale \div 2) THEN Fin(Scale)
              ELSE IF a.v <= -8 * (Scale \div 2) THEN Fin(0)
              ELSE IF a.v >= 0 THEN Fin(PhiInterp(a.v))
              ELSE Fin(Scale - PhiInterp(-a.v)))
        ELSE IF a.k = "inf" THEN (IF a.v > 0 THEN Fin(Scale) ELSE Fin(0))
        ELSE a)

(***************************************************************************)
(* Strings.                                                                *)
(***************************************************************************)
LowerCase ==
    <<"a", "b", "c", "d", "e", "f", "g", "h", "i", "j", "k", "l", "m",
      "n", "o", "p", "q", "r", "s", "t", "u", "v", "w", "x", "y", "z">>
UpperCase ==
    <<"A", "B", "C", "D", "E", "F", "G", "H", "I", "J", "K", "L", "M",
      "N", "O", "P", "Q", "R", "S", "T", "U", "V", "W", "X", "Y", "Z">>

ToUpper(c) ==
    IF \E i \in 1..26 : LowerCase[i] = c
    THEN UpperCase[CHOOSE i \in 1..26 : LowerCase[i] = c]
    ELSE c
ToLower(c) ==
    IF \E i \in 1..26 : UpperCase[i] = c
    THEN LowerCase[CHOOSE i \in 1..26 : UpperCase[i] = c]
    ELSE c

\* str.capitalize(): first character upper-cased, the rest lower-cased
capitalize(str) ==
    [i \in 1..Len(str) |-> IF i = 1 THEN ToUpper(str[i]) ELSE ToLower(str[i])]

StrCall == <<"c", "a", "l", "l">>
StrPut == <<"p", "u", "t">>
StrStraddle == <<"s", "t", "r", "a", "d", "d", "l", "e">>
StrCallCapital == <<"C", "a", "l", "l">>

(***************************************************************************)
(* The outcome of an invocation: a returned value or a raised exception.   *)
(***************************************************************************)
Return(v) == [kind |-> "return", value |-> v]
Raise(e) == [kind |-> "raise", exc |-> e]
ValueError == [type |-> "ValueError", msg |-> "option_type must be 'call' or 'put'"]
ZeroDivisionError == [type |-> "ZeroDivisionError", msg |-> "float division by zero"]

(***************************************************************************)
(* black_scholes, lines 6-48.  d1 and d2 are evaluated before option_type  *)
(* is inspected, so an exception in them would come first.                 *)
(***************************************************************************)
SigmaSqrtT(pT, psigma) == FMul(Fin(psigma), np_sqrt(Fin(pT)))

D1(pS, pK, pT, pr, psigma) ==
    FDiv(FAdd(np_log(FDiv(Fin(pS), Fin(pK))),
              FMul(FAdd(Fin(pr), FMul(Fin(Scale \div 2), Square(Fin(psigma)))),
                   Fin(pT))),
         SigmaSqrtT(pT, psigma))

D2(d1, pT, psigma) == FSub(d1, SigmaSqrtT(pT, psigma))

Discount(pK, pT, pr) == FMul(Fin(pK), np_exp(FMul(FNeg(Fin(pr)), Fin(pT))))

CallPrice(pS, pK, pT, pr, d1, d2) ==
    FSub(FMul(Fin(pS), norm_cdf(d1)),
         FMul(Discount(pK, pT, pr), norm_cdf(d2)))

\* the put formula with d1 and d2 not negated
PutPriceNoNegation(pS, pK, pT, pr, d1, d2) ==
    FSub(FMul(Discount(pK, pT, pr), norm_cdf(d2)),
         FMul(Fin(pS), norm_cdf(d1)))

PutPrice(pS, pK, pT, pr, d1, d2) ==
    FSub(FMul(Discount(pK, pT, pr), norm_cdf(FNeg(d2))),
         FMul(Fin(pS), norm_cdf(FNeg(d1))))

\* the final else pricing a put instead of raising
black_scholes_else_put(pS, pK, pT, pr, psigma, ptype) ==
    Local(D1(pS, pK, pT, pr, psigma), LAMBDA d1 :
    Local(D2(d1, pT, psigma), LAMBDA d2 :
        IF d1.k = "exc" \/ d2.k = "exc" THEN Raise(ZeroDivisionError)
        ELSE IF ptype = StrCall THEN Return(CallPrice(pS, pK, pT, pr, d1, d2))
        ELSE Return(PutPrice(pS, pK, pT, pr, d1, d2))))

black_scholes(pS, pK, pT, pr, psigma, ptype) ==
    Local(D1(pS, pK, pT, pr, psigma), LAMBDA d1 :
    Local(D2(d1, pT, psigma), LAMBDA d2 :
        IF d1.k = "exc" \/ d2.k = "exc" THEN Raise(ZeroDivisionError)
        ELSE IF ptype = StrCall THEN Return(CallPrice(pS, pK, pT, pr, d1, d2))
        ELSE IF ptype = StrPut THEN Return(PutPrice(pS, pK, pT, pr, d1, d2))
        ELSE Raise(ValueError)))

(***************************************************************************)
(* option_payoff, lines 51-60, over a vector of spots.                     *)
(***************************************************************************)
\* np.minimum in place of np.maximum
np_minimum(x, floor) == [i \in 1..Len(x) |-> IF x[i] < floor THEN x[i] ELSE floor]

\* np.maximum(x, 0), element-wise
np_maximum(x, floor) == [i \in 1..Len(x) |-> IF x[i] > floor THEN x[i] ELSE floor]

\* the two branches exchanged
option_payoff_swapped(pS, pK, ptype) ==
    IF ptype = StrCall
    THEN Return(np_maximum([i \in 1..Len(pS) |-> pK - pS[i]], 0))
    ELSE IF ptype = StrPut
    THEN Return(np_maximum([i \in 1..Len(pS) |-> pS[i] - pK], 0))
    ELSE Raise(ValueError)

option_payoff(pS, pK, ptype) ==
    IF ptype = StrCall
    THEN Return(np_maximum([i \in 1..Len(pS) |-> pS[i] - pK], 0))
    ELSE IF ptype = StrPut
    THEN Return(np_maximum([i \in 1..Len(pS) |-> pK - pS[i]], 0))
    ELSE Raise(ValueError)

(***************************************************************************)
(* The script, lines 67-109.                                               *)
(***************************************************************************)
NumSpots == 100
SpotLow == 50
SpotHigh == 150

\* np.linspace(start, stop, num): num evenly spaced values, both ends included
linspace(start, stop, num) ==
    [i \in 1..num |-> start + ((i - 1) * (stop - start)) \div (num - 1)]

OptionTypes == {StrCall, StrPut, StrStraddle, StrCallCapital}
ValidTypes == {StrCall, StrPut}

\* the values tried for T (line 69) and sigma (line 71): the script's own and
\* the degenerate zero
ScriptT == {0, Scale}
ScriptSigma == {0, Scale \div 5}

NoError == [type |-> "None", msg |-> ""]
NoCall ==
    [fn |-> "none", S |-> <<>>, K |-> 0, T |-> 0, r |-> 0, sigma |-> 0,
     option_type |-> <<>>]
NoRet == [kind |-> "none"]

\* pyplot's state before plt.figure()
NoChart ==
    [figure |-> FALSE, figsize |-> <<0, 0>>, series |-> <<>>, title |-> <<>>,
     xlabel |-> "", ylabel |-> "", legend |-> FALSE, grid |-> FALSE]

\* the labels of lines 93 and 99; EnDash stands for the character U+2013
EnDash == "U+2013"
PriceLabel == <<"Option Price (Black", EnDash, "Scholes)">>
PayoffLabel == <<"Payoff at Expiry">>

TitleSuffix ==
    <<" ", "O", "p", "t", "i", "o", "n", " ", "P", "r", "i",
      "c", "e", " ", "v", "s", " ", "P", "a", "y", "o", "f",
      "f", " ", "a", "t", " ", "E", "x", "p", "i", "r", "y">>

\* what every action of the script leaves alone: nothing assigns the
\* parameters after lines 67-72
Params == <<S, K, T, r, sigma, option_type>>
Called(fn, arg) == Append(trace, [fn |-> fn, arg |-> arg])

Init ==
    /\ S = linspace(SpotLow * Scale, SpotHigh * Scale, NumSpots)
    /\ K = 100 * Scale
    /\ T \in ScriptT
    /\ r = Scale \div 20
    /\ sigma \in ScriptSigma
    /\ option_type \in OptionTypes
    /\ pc = "prices"
    /\ prices = <<>>
    /\ payoffs = <<>>
    /\ trace = <<>>
    /\ chart = NoChart
    /\ shown = <<>>
    /\ error = NoError
    /\ call = NoCall
    /\ ret = NoRet

\* the comprehension stopping one spot short
PriceStepShort ==
    /\ pc = "prices"
    /\ \E i \in {Len(prices) + 1} :
       \E out \in {black_scholes(S[i], K, T, r, sigma, option_type)} :
           /\ trace' = Called("black_scholes", <<S[i]>>)
           /\ IF out.kind = "raise"
              THEN /\ error' = out.exc
                   /\ pc' = "terminated"
                   /\ UNCHANGED prices
              ELSE /\ prices' = Append(prices, out.value)
                   /\ pc' = IF i = Len(S) - 1 THEN "payoffs" ELSE "prices"
                   /\ UNCHANGED error
    /\ UNCHANGED <<Params, payoffs, chart, shown, call, ret>>

\* the exception caught inside the loop: a NaN entry, and the loop goes on
PriceStepSwallow ==
    /\ pc = "prices"
    /\ \E i \in {Len(prices) + 1} :
       \E out \in {black_scholes(S[i], K, T, r, sigma, option_type)} :
           /\ trace' = Called("black_scholes", <<S[i]>>)
           /\ prices' = Append(prices, IF out.kind = "raise" THEN NaN ELSE out.value)
           /\ pc' = IF i = Len(S) THEN "payoffs" ELSE "prices"
           /\ UNCHANGED error
    /\ UNCHANGED <<Params, payoffs, chart, shown, call, ret>>

\* lines 78-81: one iteration of the list comprehension; prices holds the
\* list being built, which the name is bound to after the last iteration.
\* An exception leaves the comprehension and the script.
PriceStep ==
    /\ pc = "prices"
    /\ \E i \in {Len(prices) + 1} :
       \E out \in {black_scholes(S[i], K, T, r, sigma, option_type)} :
           /\ trace' = Called("black_scholes", <<S[i]>>)
           /\ IF out.kind = "raise"
              THEN /\ error' = out.exc
                   /\ pc' = "terminated"
                   /\ UNCHANGED prices
              ELSE /\ prices' = Append(prices, out.value)
                   /\ pc' = IF i = Len(S) THEN "payoffs" ELSE "prices"
                   /\ UNCHANGED error
    /\ UNCHANGED <<Params, payoffs, chart, shown, call, ret>>

\* option_payoff(S, K): option_type left to its default, "call"
ComputePayoffsDefaultType ==
    /\ pc = "payoffs"
    /\ \E out \in {option_payoff(S, K, StrCall)} :
           /\ trace' = Called("option_payoff", S)
           /\ payoffs' = out.value
           /\ pc' = "figure"
           /\ UNCHANGED error
    /\ UNCHANGED <<Params, prices, chart, shown, call, ret>>

\* np.maximum(S - K, 0, out=S): the payoffs written over the spot vector
ComputePayoffsInPlace ==
    /\ pc = "payoffs"
    /\ \E out \in {option_payoff(S, K, option_type)} :
           /\ trace' = Called("option_payoff", S)
           /\ IF out.kind = "raise"
              THEN /\ error' = out.exc
                   /\ pc' = "terminated"
                   /\ UNCHANGED <<payoffs, S>>
              ELSE /\ payoffs' = out.value
                   /\ S' = out.value
                   /\ pc' = "figure"
                   /\ UNCHANGED error
    /\ UNCHANGED <<K, T, r, sigma, option_type, prices, chart, shown, call, ret>>

\* line 83
ComputePayoffs ==
    /\ pc = "payoffs"
    /\ \E out \in {option_payoff(S, K, option_type)} :
           /\ trace' = Called("option_payoff", S)
           /\ IF out.kind = "raise"
              THEN /\ error' = out.exc
                   /\ pc' = "terminated"
                   /\ UNCHANGED payoffs
              ELSE /\ payoffs' = out.value
                   /\ pc' = "figure"
                   /\ UNCHANGED error
    /\ UNCHANGED <<Params, prices, chart, shown, call, ret>>

\* line 89
Figure ==
    /\ pc = "figure"
    /\ chart' = [NoChart EXCEPT !.figure = TRUE, !.figsize = <<10, 6>>]
    /\ trace' = Called("plt.figure", <<>>)
    /\ pc' = "plot_prices"
    /\ UNCHANGED <<Params, prices, payoffs, shown, error, call, ret>>

\* lines 90-95
PlotPrices ==
    /\ pc = "plot_prices"
    /\ chart' = [chart EXCEPT !.series = Append(@,
                    [x |-> S, y |-> prices, label |-> PriceLabel,
                     color |-> "blue", linestyle |-> "-"])]
    /\ trace' = Called("plt.plot", S)
    /\ pc' = "plot_payoffs"
    /\ UNCHANGED <<Params, prices, payoffs, shown, error, call, ret>>

\* lines 96-102
PlotPayoffs ==
    /\ pc = "plot_payoffs"
    /\ chart' = [chart EXCEPT !.series = Append(@,
                    [x |-> S, y |-> payoffs, label |-> PayoffLabel,
                     color |-> "green", linestyle |-> "--"])]
    /\ trace' = Called("plt.plot", S)
    /\ pc' = "title"
    /\ UNCHANGED <<Params, prices, payoffs, shown, error, call, ret>>

\* the title without .capitalize()
TitleRaw ==
    /\ pc = "title"
    /\ chart' = [chart EXCEPT !.title = option_type \o TitleSuffix]
    /\ trace' = Called("plt.title", <<>>)
    /\ pc' = "xlabel"
    /\ UNCHANGED <<Params, prices, payoffs, shown, error, call, ret>>

\* line 104
Title ==
    /\ pc = "title"
    /\ chart' = [chart EXCEPT !.title = capitalize(option_type) \o TitleSuffix]
    /\ trace' = Called("plt.title", <<>>)
    /\ pc' = "xlabel"
    /\ UNCHANGED <<Params, prices, payoffs, shown, error, call, ret>>

\* line 105
XLabel ==
    /\ pc = "xlabel"
    /\ chart' = [chart EXCEPT !.xlabel = "Underlying Stock Price ($)"]
    /\ trace' = Called("plt.xlabel", <<>>)
    /\ pc' = "ylabel"
    /\ UNCHANGED <<Params, prices, payoffs, shown, error, call, ret>>

\* line 106
YLabel ==
    /\ pc = "ylabel"
    /\ chart' = [chart EXCEPT !.ylabel = "Value ($)"]
    /\ trace' = Called("plt.ylabel", <<>>)
    /\ pc' = "legend"
    /\ UNCHANGED <<Params, prices, payoffs, shown, error, call, ret>>

\* line 107
Legend ==
    /\ pc = "legend"
    /\ chart' = [chart EXCEPT !.legend = TRUE]
    /\ trace' = Called("plt.legend", <<>>)
    /\ pc' = "grid"
    /\ UNCHANGED <<Params, prices, payoffs, shown, error, call, ret>>

\* line 108
Grid ==
    /\ pc = "grid"
    /\ chart' = [chart EXCEPT !.grid = TRUE]
    /\ trace' = Called("plt.grid", <<>>)
    /\ pc' = "show"
    /\ UNCHANGED <<Params, prices, payoffs, shown, error, call, ret>>

\* line 109: the chart is displayed; the script ends when it is closed
Show ==
    /\ pc = "show"
    /\ shown' = Append(shown, chart)
    /\ trace' = Called("plt.show", <<>>)
    /\ pc' = "done"
    /\ UNCHANGED <<Params, prices, payoffs, chart, error, call, ret>>

Next ==
    \/ PriceStep
    \/ ComputePayoffs
    \/ Figure
    \/ PlotPrices
    \/ PlotPayoffs
    \/ Title
    \/ XLabel
    \/ YLabel
    \/ Legend
    \/ Grid
    \/ Show

Spec == Init /\ [][Next]_vars

\* The script is one thread that runs to its end.
FairSpec == Spec /\ WF_vars(Next)

(***************************************************************************)
(* The two functions invoked directly, on inputs drawn from small sets.    *)
(***************************************************************************)
Spots == {50 * Scale, 80 * Scale, 100 * Scale, 120 * Scale, 150 * Scale}
Strikes == {80 * Scale, 100 * Scale, 120 * Scale}
Maturities == {0, Scale \div 2, Scale}
Rates == {-(Scale \div 20), 0, Scale \div 20}
Vols == {0, Scale \div 10, Scale \div 5}
SpotVectors == UNION {[1..n -> Spots] : n \in 0..MaxLen}

InitFn ==
    /\ S = <<>>
    /\ K = 0
    /\ T = 0
    /\ r = 0
    /\ sigma = 0
    /\ option_type = <<>>
    /\ pc = "idle"
    /\ prices = <<>>
    /\ payoffs = <<>>
    /\ trace = <<>>
    /\ chart = NoChart
    /\ shown = <<>>
    /\ error = NoError
    /\ call = NoCall
    /\ ret = NoRet

\* one invocation per run: the functions keep nothing between calls
InvokePricer ==
    /\ pc = "idle"
    /\ pc' = "returned"
    /\ \E s \in Spots, k \in Strikes, t \in Maturities, rate \in Rates,
          vol \in Vols, ot \in OptionTypes :
          /\ call' = [fn |-> "black_scholes", S |-> <<s>>, K |-> k, T |-> t,
                      r |-> rate, sigma |-> vol, option_type |-> ot]
          /\ ret' = black_scholes(s, k, t, rate, vol, ot)
    /\ UNCHANGED <<Params, prices, payoffs, trace, chart, shown, error>>

InvokePayoff ==
    /\ pc = "idle"
    /\ pc' = "returned"
    /\ \E vec \in SpotVectors, k \in Strikes, ot \in OptionTypes :
          /\ call' = [fn |-> "option_payoff", S |-> vec, K |-> k, T |-> 0,
                      r |-> 0, sigma |-> 0, option_type |-> ot]
          /\ ret' = option_payoff(vec, k, ot)
    /\ UNCHANGED <<Params, prices, payoffs, trace, chart, shown, error>>

NextFn == InvokePricer \/ InvokePayoff

SpecFn == InitFn /\ [][NextFn]_vars

(***************************************************************************)
(* Properties.                                                             *)
(***************************************************************************)
Max(a, b) == IF a >= b THEN a ELSE b
IsPrefix(a, b) == Len(a) <= Len(b) /\ a = SubSeq(b, 1, Len(a))
Returned == pc = "returned"
PayoffCalled == Returned /\ call.fn = "option_payoff"
PricerCalled == Returned /\ call.fn = "black_scholes"

\* C1: option_payoff(S, K, type) with type call or put returns a vector as
\* long as S whose i-th element is max(S[i] - K, 0) for a call and
\* max(K - S[i], 0) for a put; so payoff(120, 100, call) = 20,
\* payoff(80, 100, call) = 0 and payoff(80, 100, put) = 20.
C1_PayoffElementwise ==
    /\ (PayoffCalled /\ call.option_type \in ValidTypes) =>
          /\ ret.kind = "return"
          /\ Len(ret.value) = Len(call.S)
          /\ \A i \in 1..Len(call.S) :
                ret.value[i] = IF call.option_type = StrCall
                               THEN Max(call.S[i] - call.K, 0)
                               ELSE Max(call.K - call.S[i], 0)
    /\ (PayoffCalled /\ call.K = 100 * Scale /\ call.S = <<120 * Scale, 80 * Scale>>
          /\ call.option_type = StrCall) => ret.value = <<20 * Scale, 0>>
    /\ (PayoffCalled /\ call.K = 100 * Scale /\ call.S = <<80 * Scale>>
          /\ call.option_type = StrPut) => ret.value = <<20 * Scale>>

C1_Witness ==
    /\ PayoffCalled
    /\ call.option_type = StrCall
    /\ call.K = 100 * Scale
    /\ call.S = <<120 * Scale, 80 * Scale>>
    /\ ret = Return(<<20 * Scale, 0>>)

C3_PutCallParity ==
    (PricerCalled /\ call.option_type \in ValidTypes /\ call.T > 0 /\ call.sigma > 0) =>
        LET c == black_scholes(call.S[1], call.K, call.T, call.r, call.sigma, StrCall)
            p == black_scholes(call.S[1], call.K, call.T, call.r, call.sigma, StrPut)
            rhs == FSub(Fin(call.S[1]), Discount(call.K, call.T, call.r))
        IN  /\ ret = IF call.option_type = StrCall THEN c ELSE p
            /\ c.kind = "return" /\ p.kind = "return"
            /\ c.value.k = "fin" /\ p.value.k = "fin" /\ rhs.k = "fin"
            /\ Abs((c.value.v - p.value.v) - rhs.v) <= Tol

C3_Witness ==
    /\ PricerCalled
    /\ call.option_type = StrPut
    /\ call.T = Scale
    /\ call.sigma = Scale \div 5
    /\ call.r = Scale \div 20
    /\ call.S = <<100 * Scale>>
    /\ call.K = 100 * Scale
    /\ ret.kind = "return"
    /\ ret.value.k = "fin"
    /\ ret.value.v > 0

C10_PayoffParity ==
    (PayoffCalled /\ call.option_type \in ValidTypes) =>
        LET c == option_payoff(call.S, call.K, StrCall).value
            p == option_payoff(call.S, call.K, StrPut).value
        IN  /\ ret.value = IF call.option_type = StrCall THEN c ELSE p
            /\ \A i \in 1..Len(call.S) :
                  /\ c[i] - p[i] = call.S[i] - call.K
                  /\ c[i] >= 0 /\ p[i] >= 0
                  /\ c[i] = 0 \/ p[i] = 0
                  /\ (c[i] = 0 /\ p[i] = 0) <=> call.S[i] = call.K

C10_Witness ==
    /\ PayoffCalled
    /\ call.option_type = StrPut
    /\ call.K = 100 * Scale
    /\ call.S = <<80 * Scale, 100 * Scale, 120 * Scale>>
    /\ ret = Return(<<20 * Scale, 0, 0>>)

Rendering == pc \in {"plot_prices", "plot_payoffs", "title", "xlabel", "ylabel",
                     "legend", "grid", "show", "done"}

\* C5: when rendering happens, the price curve and the payoff curve have 100
\* entries each over the same 100 spots: prices[i] is the pricer's result for
\* S[i] and payoffs[i] the payoff for S[i], with the same K and option_type,
\* and both series are plotted against S.
C5_CurvesShareSpots ==
    Rendering =>
        /\ Len(S) = 100 /\ Len(prices) = 100 /\ Len(payoffs) = 100
        /\ \A i \in 1..100 :
              /\ black_scholes(S[i], K, T, r, sigma, option_type) = Return(prices[i])
              /\ payoffs[i] = IF option_type = StrCall THEN Max(S[i] - K, 0)
                              ELSE Max(K - S[i], 0)
              /\ i > 1 => S[i - 1] < S[i]
        /\ \A j \in 1..Len(chart.series) :
              /\ chart.series[j].x = S
              /\ chart.series[j].y = IF j = 1 THEN prices ELSE payoffs

C5_Witness ==
    /\ pc = "done"
    /\ option_type = StrPut
    /\ Len(shown) = 1
    /\ Len(shown[1].series) = 2
    /\ payoffs[1] = 50 * Scale
    /\ payoffs[100] = 0
    /\ prices[1].k = "fin" /\ prices[100].k = "fin"
    /\ prices[1].v > prices[100].v

PlotCalls ==
    <<[fn |-> "plt.figure", arg |-> <<>>], [fn |-> "plt.plot", arg |-> S],
      [fn |-> "plt.plot", arg |-> S], [fn |-> "plt.title", arg |-> <<>>],
      [fn |-> "plt.xlabel", arg |-> <<>>], [fn |-> "plt.ylabel", arg |-> <<>>],
      [fn |-> "plt.legend", arg |-> <<>>], [fn |-> "plt.grid", arg |-> <<>>],
      [fn |-> "plt.show", arg |-> <<>>]>>

ExpectedTrace ==
    [i \in 1..100 |-> [fn |-> "black_scholes", arg |-> <<S[i]>>]]
    \o <<[fn |-> "option_payoff", arg |-> S]>>
    \o PlotCalls

\* C6: a run with a valid option_type is one linear pass that always reaches
\* the display: 100 pricer invocations in spot order, then one payoff
\* invocation over the whole vector, then the plotting calls once both curves
\* are complete, and the chart displayed exactly once.
C6_LinearPass ==
    /\ [](option_type \in ValidTypes =>
            /\ IsPrefix(trace, ExpectedTrace)
            /\ (pc = "done") <=> (trace = ExpectedTrace)
            /\ chart.figure => (Len(prices) = 100 /\ Len(payoffs) = 100)
            /\ Len(shown) = IF pc = "done" THEN 1 ELSE 0
            /\ error = NoError)
    /\ (option_type \in ValidTypes => <>(pc = "done"))

C6_Witness ==
    /\ pc = "done"
    /\ option_type = StrCall
    /\ Len(trace) = 110
    /\ trace[100].fn = "black_scholes"
    /\ trace[101].fn = "option_payoff"
    /\ trace[110].fn = "plt.show"
    /\ Len(shown) = 1

\* C7: with an option_type that is neither call nor put, the ValueError of the
\* first pricer invocation ends the script: no second pricer call, no payoff
\* call, no figure, no chart displayed, and nothing runs afterwards.
C7_InvalidTypeTerminates ==
    option_type \notin ValidTypes =>
        /\ Len(trace) <= 1
        /\ Len(trace) = 1 =>
              /\ trace[1] = [fn |-> "black_scholes", arg |-> <<S[1]>>]
              /\ pc = "terminated"
              /\ error = ValueError
              /\ ~ENABLED Next
        /\ prices = <<>>
        /\ payoffs = <<>>
        /\ chart = NoChart
        /\ shown = <<>>

C7_Witness ==
    /\ option_type = StrStraddle
    /\ pc = "terminated"
    /\ error = ValueError
    /\ Len(trace) = 1
    /\ trace[1].fn = "black_scholes"

\* C8: the chart displayed has exactly two series over the spot axis, the
\* first labelled "Option Price (Black-Scholes)" and solid, the second
\* "Payoff at Expiry" and dashed, the x label "Underlying Stock Price ($)",
\* the y label "Value ($)", a legend, a grid, and the title "Call Option
\* Price vs Payoff at Expiry" for a call and "Put ..." for a put.
C8_ChartContents ==
    /\ pc = "done" => Len(shown) = 1
    /\ \A n \in 1..Len(shown) :
          LET c == shown[n]
          IN  /\ c.figure
              /\ Len(c.series) = 2
              /\ c.series[1].x = S /\ c.series[2].x = S
              /\ c.series[1].label = <<"Option Price (Black", "U+2013", "Scholes)">>
              /\ c.series[1].linestyle = "-"
              /\ c.series[2].label = <<"Payoff at Expiry">>
              /\ c.series[2].linestyle = "--"
              /\ c.xlabel = "Underlying Stock Price ($)"
              /\ c.ylabel = "Value ($)"
              /\ c.legend
              /\ c.grid
              /\ option_type \in ValidTypes
              /\ c.title = (IF option_type = StrCall THEN <<"C", "a", "l", "l">>
                            ELSE <<"P", "u", "t">>) \o TitleSuffix

C8_Witness ==
    /\ pc = "done"
    /\ option_type = StrPut
    /\ Len(shown) = 1
    /\ SubSeq(shown[1].title, 1, 4) = <<"P", "u", "t", " ">>
    /\ shown[1].grid

\* C9: an invocation of black_scholes or option_payoff, returning or raising,
\* leaves the spot vector, K, T, r, sigma, option_type and the curves already
\* computed unchanged; so the payoff calculator and the plot get the spot
\* vector the pricer was applied to.
C9_Pure ==
    /\ [][/\ Params' = Params
          /\ IsPrefix(prices, prices')
          /\ payoffs # <<>> => payoffs' = payoffs]_vars
    /\ [](\A n \in 1..Len(trace) :
            /\ (trace[n].fn = "black_scholes" /\ n <= Len(S)) => trace[n].arg = <<S[n]>>
            /\ trace[n].fn \in {"option_payoff", "plt.plot"} =>
                  /\ trace[n].arg = S
                  /\ \A i \in 1..Len(S) : trace[i] = [fn |-> "black_scholes", arg |-> <<trace[n].arg[i]>>])

C9_Witness ==
    /\ pc = "figure"
    /\ Len(trace) = 101
    /\ trace[101] = [fn |-> "option_payoff", arg |-> S]
    /\ trace[1] = [fn |-> "black_scholes", arg |-> <<50 * Scale>>]
    /\ Len(prices) = 100
    /\ Len(payoffs) = 100

====
